---------------------------- MODULE Spec2Model ----------------------------
(***************************************************************************)
(* Model of the SQLite-backed git filesystem (SqliteFS, fs-adapter.ts),    *)
(* its row decoding helpers (encoding.ts) and the path normalisers of      *)
(* SqliteFS and MemFS (memfs.ts).                                          *)
(*                                                                         *)
(* Strings are sequences of one-character strings, so that the regular     *)
(* expressions and split/join of the source can be computed.  A byte       *)
(* sequence is a sequence of integers 0..255.                              *)
(***************************************************************************)
EXTENDS Integers, Sequences, FiniteSets, TLC

VARIABLES
    db,        \* the SQLite store behind the SqlExecutor: tables and indexes
    now,       \* Date.now()
    pc,        \* the init() run in progress: its branch and next statement
    ran,       \* how the latest init() run ended
    seed,      \* the v1 store the behaviour started from (history)
    interrupted, \* an init() run was interrupted (history)
    probe,     \* argument and result of the last path-normaliser call
    mem,       \* the maps of a MemFS: files and symlinks
    calls,     \* per caller: the SqliteFS call it made and how far its body ran
    base       \* the rows when the first call of the current round was made

vars == <<db, now, pc, ran, seed, interrupted, probe, mem, calls, base>>

(***************************************************************************)
(* Bounds of the model.                                                    *)
(***************************************************************************)
\* Longest byte sequence written.
MaxLen == 3
\* Longest raw string given to a path normaliser.
MaxStrLen == 5
\* Latest reading of the clock.
MaxClock == 2

\* fs-adapter.ts:19 is 1800 * 1024; the model scales the chunk size down so
\* that files of one, exactly-full and several chunks all occur.
CHUNK_SIZE == 2

(***************************************************************************)
(* Strings.                                                                *)
(***************************************************************************)
Max(a, b) == IF a >= b THEN a ELSE b
Min(a, b) == IF a <= b THEN a ELSE b

\* String.prototype.startsWith
StartsWith(s, pre) ==
    /\ Len(s) >= Len(pre)
    /\ SubSeq(s, 1, Len(pre)) = pre

\* s.replace(/^\/+/, '')
RECURSIVE StripLeadingSlashes(_)
StripLeadingSlashes(s) ==
    IF s # <<>> /\ Head(s) = "/" THEN StripLeadingSlashes(Tail(s)) ELSE s

\* s.replace(/\/+$/g, '')
RECURSIVE StripTrailingSlashes(_)
StripTrailingSlashes(s) ==
    IF s # <<>> /\ s[Len(s)] = "/"
    THEN StripTrailingSlashes(SubSeq(s, 1, Len(s) - 1))
    ELSE s

\* s.split('/'): a non-empty sequence of segments; ''.split('/') is [''].
RECURSIVE Split(_)
Split(s) ==
    IF \A i \in 1..Len(s) : s[i] # "/"
    THEN <<s>>
    ELSE LET k == CHOOSE i \in 1..Len(s) :
                      /\ s[i] = "/"
                      /\ \A j \in 1..(i - 1) : s[j] # "/"
         IN  <<SubSeq(s, 1, k - 1)>> \o Split(SubSeq(s, k + 1, Len(s)))

\* parts.join('/')
RECURSIVE Join(_)
Join(parts) ==
    IF parts = <<>> THEN <<>>
    ELSE IF Len(parts) = 1 THEN parts[1]
    ELSE parts[1] \o <<"/">> \o Join(Tail(parts))

\* parts.slice(0, n)
SliceTo(parts, n) == SubSeq(parts, 1, n)

(***************************************************************************)
(* Path normalisers.                                                       *)
(***************************************************************************)
\* fs-adapter.ts normalizePath
normalizePath(path) ==
    LET stripped == StripLeadingSlashes(path)
    IN  IF stripped = <<".">> \/ stripped = <<".", "/">>
        THEN <<>>
        ELSE IF StartsWith(stripped, <<".", "/">>)
             THEN SubSeq(stripped, 3, Len(stripped))
             ELSE stripped

\* memfs.ts normalize
normalize(p) == StripLeadingSlashes(p)


(***************************************************************************)
(* Column values and rows.                                                 *)
(* The data column holds NULL, a BLOB (ArrayBuffer) or TEXT (legacy        *)
(* base64).                                                                *)
(***************************************************************************)
NULL == [kind |-> "null", v |-> <<>>]
Blob(bytes) == [kind |-> "blob", v |-> bytes]
Text(chars) == [kind |-> "text", v |-> chars]

\* A row of the v2 table git_objects (fs-adapter.ts createSchema).
Row(path, chunk_index, parent_path, data, is_dir, size, mtime) ==
    [path |-> path, chunk_index |-> chunk_index, parent_path |-> parent_path,
     data |-> data, is_dir |-> is_dir, size |-> size, mtime |-> mtime]

\* A row of the v1 table, by the columns migrateV1toV2 reads: there is no
\* chunk_index.
V1Row(path, parent_path, data, is_dir, mtime) ==
    [path |-> path, parent_path |-> parent_path,
     data |-> data, is_dir |-> is_dir, mtime |-> mtime]

(***************************************************************************)
(* encoding.ts                                                             *)
(***************************************************************************)
B64Alphabet ==
    <<"A","B","C","D","E","F","G","H","I","J","K","L","M","N","O","P",
      "Q","R","S","T","U","V","W","X","Y","Z","a","b","c","d","e","f",
      "g","h","i","j","k","l","m","n","o","p","q","r","s","t","u","v",
      "w","x","y","z","0","1","2","3","4","5","6","7","8","9","+","/">>

B64Char(n) == B64Alphabet[n + 1]
B64Value(c) == (CHOOSE i \in 1..64 : B64Alphabet[i] = c) - 1
IsB64Char(c) == \E i \in 1..64 : B64Alphabet[i] = c

\* The base64 text a legacy (v1) writer stored for a byte sequence (btoa).
RECURSIVE B64Encode(_)
B64Encode(bytes) ==
    IF bytes = <<>> THEN <<>>
    ELSE IF Len(bytes) = 1 THEN
        <<B64Char(bytes[1] \div 4), B64Char((bytes[1] % 4) * 16), "=", "=">>
    ELSE IF Len(bytes) = 2 THEN
        <<B64Char(bytes[1] \div 4),
          B64Char((bytes[1] % 4) * 16 + bytes[2] \div 16),
          B64Char((bytes[2] % 16) * 4), "=">>
    ELSE
        <<B64Char(bytes[1] \div 4),
          B64Char((bytes[1] % 4) * 16 + bytes[2] \div 16),
          B64Char((bytes[2] % 16) * 4 + bytes[3] \div 64),
          B64Char(bytes[3] % 64)>> \o B64Encode(SubSeq(bytes, 4, Len(bytes)))

\* atob's removal of the padding: one or two trailing "=" of a text whose
\* length is a multiple of four.
StripPadding(s) ==
    IF Len(s) % 4 = 0 /\ Len(s) > 0 /\ s[Len(s)] = "="
    THEN IF s[Len(s) - 1] = "=" THEN SubSeq(s, 1, Len(s) - 2)
                                ELSE SubSeq(s, 1, Len(s) - 1)
    ELSE s

\* atob accepts the text: only alphabet characters are left and the length
\* is not 1 modulo 4.
AtobAccepts(s) ==
    LET t == StripPadding(s)
    IN  /\ Len(t) % 4 # 1
        /\ \A i \in 1..Len(t) : IsB64Char(t[i])

RECURSIVE DecodeSextets(_)
DecodeSextets(t) ==
    IF Len(t) < 2 THEN <<>>
    ELSE LET a == B64Value(t[1])
             b == B64Value(t[2])
         IN  IF Len(t) = 2 THEN <<a * 4 + b \div 16>>
             ELSE LET c == B64Value(t[3])
                  IN  IF Len(t) = 3
                      THEN <<a * 4 + b \div 16, (b % 16) * 16 + c \div 4>>
                      ELSE <<a * 4 + b \div 16, (b % 16) * 16 + c \div 4,
                             (c % 4) * 64 + B64Value(t[4])>>
                           \o DecodeSextets(SubSeq(t, 5, Len(t)))

\* encoding.ts base64ToUint8Array: the bytes atob decodes.
base64ToUint8Array(base64) == DecodeSextets(StripPadding(base64))

\* encoding.ts rowDataToBytes
rowDataToBytes(data) ==
    IF data.kind = "blob" THEN data.v
    ELSE IF data.kind = "text" /\ Len(data.v) > 0 THEN base64ToUint8Array(data.v)
    ELSE <<>>

\* rowDataToBytes throws (atob's InvalidCharacterError) on this column value.
rowDataThrows(data) ==
    data.kind = "text" /\ Len(data.v) > 0 /\ ~AtobAccepts(data.v)

\* encoding.ts concatBuffers
RECURSIVE concatBuffers(_)
concatBuffers(chunks) ==
    IF chunks = <<>> THEN <<>> ELSE Head(chunks) \o concatBuffers(Tail(chunks))

(***************************************************************************)
(* SQL statements of fs-adapter.ts over the rows of git_objects.           *)
(***************************************************************************)
SamePK(r, q) == r.path = q.path /\ r.chunk_index = q.chunk_index

\* SELECT ... WHERE path = p AND chunk_index = 0
SelectChunk0(rows, p) == {r \in rows : r.path = p /\ r.chunk_index = 0}

\* SELECT ... WHERE path = p
SelectPath(rows, p) == {r \in rows : r.path = p}

\* ... ORDER BY chunk_index: the rows of a set as a sequence, ascending.
RECURSIVE OrderByChunkIndex(_)
OrderByChunkIndex(rs) ==
    IF rs = {} THEN <<>>
    ELSE LET first == CHOOSE r \in rs : \A q \in rs : r.chunk_index <= q.chunk_index
         IN  <<first>> \o OrderByChunkIndex(rs \ {first})

\* INSERT OR IGNORE INTO git_objects
InsertOrIgnore(rows, r) ==
    IF \E q \in rows : SamePK(q, r) THEN rows ELSE rows \cup {r}

\* INSERT OR REPLACE INTO git_objects
InsertOrReplace(rows, r) == {q \in rows : ~SamePK(q, r)} \cup {r}

\* INSERT INTO git_objects fails on a primary-key conflict.
InsertConflicts(rows, r) == \E q \in rows : SamePK(q, r)

\* A DELETE that removes the chunk-0 row only.
DeleteWherePath_chunk0(rows, p) == {r \in rows : ~(r.path = p /\ r.chunk_index = 0)}

\* DELETE FROM git_objects WHERE path = p
DeleteWherePath(rows, p) == {r \in rows : r.path # p}

\* The directory row of createSchema, writeFile and mkdir (size defaults to 0).
DirRow(path, parent_path, mtime) == Row(path, 0, parent_path, NULL, 1, 0, mtime)

\* The outcome of a call: the rows it leaves and the error it raised ("" when
\* it returned).
Outcome(rows, err) == [rows |-> rows, err |-> err]

(***************************************************************************)
(* SqliteFS.readFile                                                       *)
(***************************************************************************)
\* readFile without the check for a directory.
readFile_ofDirectory(rows, path) ==
    LET normalized == normalizePath(path)
        meta == SelectChunk0(rows, normalized)
    IN  IF meta = {} THEN [err |-> "ENOENT", bytes |-> <<>>]
        ELSE LET ordered == OrderByChunkIndex(SelectPath(rows, normalized))
             IN  [err |-> "",
                  bytes |-> concatBuffers([i \in 1..Len(ordered) |->
                                             rowDataToBytes(ordered[i].data)])]

\* fs-adapter.ts readFile: [err, bytes]
readFile(rows, path) ==
    LET normalized == normalizePath(path)
        meta == SelectChunk0(rows, normalized)
    IN  IF meta = {} THEN [err |-> "ENOENT", bytes |-> <<>>]
        ELSE IF \E m \in meta : m.is_dir # 0 THEN [err |-> "EISDIR", bytes |-> <<>>]
        ELSE LET ordered == OrderByChunkIndex(SelectPath(rows, normalized))
             IN  IF \E i \in 1..Len(ordered) : rowDataThrows(ordered[i].data)
                 THEN [err |-> "InvalidCharacterError", bytes |-> <<>>]
                 ELSE [err |-> "",
                       bytes |-> concatBuffers([i \in 1..Len(ordered) |->
                                                  rowDataToBytes(ordered[i].data)])]

(***************************************************************************)
(* SqliteFS.stat                                                           *)
(***************************************************************************)
\* (row.data.match(/=+$/) || [''])[0].length
RECURSIVE TrailingEquals(_)
TrailingEquals(s) ==
    IF s # <<>> /\ s[Len(s)] = "="
    THEN 1 + TrailingEquals(SubSeq(s, 1, Len(s) - 1))
    ELSE 0

\* The size of a legacy base64 text with the padding counted as data.
LegacySize_noPadding(text) == (Len(text) * 3) \div 4

\* fs-adapter.ts stat, lines 421-425: the size of a legacy base64 text.
LegacySize(text) == (Len(text) * 3) \div 4 - TrailingEquals(text)

\* fs-adapter.ts stat, lines 416-426: size resolution of a chunk-0 row.
ResolveSize(row) ==
    IF row.is_dir # 1 /\ row.size = 0 /\ row.data.kind # "null"
    THEN IF row.data.kind = "blob" THEN Len(row.data.v) ELSE LegacySize(row.data.v)
    ELSE row.size

\* fs-adapter.ts stat: [err, type, mode, size, mtimeMs]
stat(rows, path) ==
    LET normalized == normalizePath(path)
        result == SelectChunk0(rows, normalized)
    IN  IF result = {}
        THEN [err |-> "ENOENT", type |-> "", mode |-> 0, size |-> 0, mtimeMs |-> 0]
        ELSE LET row == CHOOSE r \in result : TRUE
                 isDir == row.is_dir = 1
             IN  [err |-> "",
                  type |-> IF isDir THEN "dir" ELSE "file",
                  mode |-> IF isDir THEN 16877 ELSE 33188,
                  size |-> ResolveSize(row),
                  mtimeMs |-> row.mtime]

(***************************************************************************)
(* SqliteFS.writeFile                                                      *)
(***************************************************************************)
\* parts.length > 1 ? parts.slice(0, -1).join('/') : ''
ParentOf(parts) ==
    IF Len(parts) > 1 THEN Join(SliceTo(parts, Len(parts) - 1)) ELSE <<>>

\* fs-adapter.ts writeFile, lines 196-205: the loop over the ancestors,
\* from index i on.
RECURSIVE EnsureParents(_, _, _, _)
EnsureParents(rows, parts, i, t) ==
    IF i >= Len(parts) - 1 THEN rows
    ELSE LET dirPath == Join(SliceTo(parts, i + 1))
             dirParent == IF i = 0 THEN <<>> ELSE Join(SliceTo(parts, i))
         IN  EnsureParents(InsertOrIgnore(rows, DirRow(dirPath, dirParent, t)),
                           parts, i + 1, t)

\* The chunk count with the division rounded down (Math.floor).
ChunkCount_floor(totalSize) == Max(1, totalSize \div CHUNK_SIZE)

\* Math.max(1, Math.ceil(totalSize / CHUNK_SIZE))
ChunkCount(totalSize) == Max(1, (totalSize + CHUNK_SIZE - 1) \div CHUNK_SIZE)

\* Every chunk row carrying the file's parent.
ChunkParent_always(i, parentPath) == parentPath

\* i === 0 ? parentPath : ''
ChunkParent(i, parentPath) == IF i = 0 THEN parentPath ELSE <<>>

\* fs-adapter.ts writeFile, lines 215-224: the loop writing the chunks, from
\* index i on.  A plain INSERT that meets an existing row throws.
RECURSIVE WriteChunks(_, _, _, _, _, _)
WriteChunks(rows, normalized, parentPath, bytes, i, t) ==
    LET totalSize == Len(bytes)
        start == i * CHUNK_SIZE
        end == Min(start + CHUNK_SIZE, totalSize)
        row == Row(normalized, i, ChunkParent(i, parentPath),
                   Blob(SubSeq(bytes, start + 1, end)), 0,
                   IF i = 0 THEN totalSize ELSE 0, t)
    IN  IF i >= ChunkCount(totalSize) THEN Outcome(rows, "")
        ELSE IF InsertConflicts(rows, row) THEN Outcome(rows, "SQLITE_CONSTRAINT")
        ELSE WriteChunks(rows \cup {row}, normalized, parentPath, bytes, i + 1, t)

\* writeFile with the directory check after the ancestor rows are inserted.
writeFile_checksAfterParents(rows, path, bytes, t) ==
    LET normalized == normalizePath(path)
        existing == SelectChunk0(rows, normalized)
        parts == Split(normalized)
    IN  IF normalized = <<>> THEN Outcome(rows, "Cannot write to root")
        ELSE IF \E e \in existing : e.is_dir = 1
             THEN Outcome(EnsureParents(rows, parts, 0, t), "EISDIR")
        ELSE WriteChunks(
                 DeleteWherePath(EnsureParents(rows, parts, 0, t), normalized),
                 normalized, ParentOf(parts), bytes, 0, t)

\* fs-adapter.ts writeFile
writeFile(rows, path, bytes, t) ==
    LET normalized == normalizePath(path)
        existing == SelectChunk0(rows, normalized)
        parts == Split(normalized)
    IN  IF normalized = <<>> THEN Outcome(rows, "Cannot write to root")
        ELSE IF \E e \in existing : e.is_dir = 1 THEN Outcome(rows, "EISDIR")
        ELSE WriteChunks(
                 DeleteWherePath(EnsureParents(rows, parts, 0, t), normalized),
                 normalized, ParentOf(parts), bytes, 0, t)

(***************************************************************************)
(* SqliteFS.unlink, mkdir, rmdir                                           *)
(***************************************************************************)
\* unlink without the check for a directory.
unlink_removesDirectories(rows, path) ==
    LET normalized == normalizePath(path)
        existing == SelectChunk0(rows, normalized)
    IN  IF existing = {} THEN Outcome(rows, "ENOENT")
        ELSE Outcome(DeleteWherePath(rows, normalized), "")

\* fs-adapter.ts unlink
unlink(rows, path) ==
    LET normalized == normalizePath(path)
        existing == SelectChunk0(rows, normalized)
    IN  IF existing = {} THEN Outcome(rows, "ENOENT")
        ELSE IF \E e \in existing : e.is_dir = 1 THEN Outcome(rows, "EPERM")
        ELSE Outcome(DeleteWherePath(rows, normalized), "")

\* mkdir without the check of the parent.
mkdir_anywhere(rows, path, t) ==
    LET normalized == StripTrailingSlashes(normalizePath(path))
        parts == Split(normalized)
        existing == SelectChunk0(rows, normalized)
    IN  IF normalized = <<>> THEN Outcome(rows, "")
        ELSE IF existing # {}
             THEN IF \E e \in existing : e.is_dir = 1
                  THEN Outcome(rows, "")
                  ELSE Outcome(rows, "EEXIST")
        ELSE Outcome(InsertOrIgnore(rows, DirRow(normalized, ParentOf(parts), t)), "")

\* fs-adapter.ts mkdir
mkdir(rows, path, t) ==
    LET normalized == StripTrailingSlashes(normalizePath(path))
        parts == Split(normalized)
        parent == SelectChunk0(rows, ParentOf(parts))
        existing == SelectChunk0(rows, normalized)
    IN  IF normalized = <<>> THEN Outcome(rows, "")
        ELSE IF Len(parts) > 1 /\ (parent = {} \/ \E q \in parent : q.is_dir # 1)
             THEN Outcome(rows, "ENOENT")
        ELSE IF existing # {}
             THEN IF \E e \in existing : e.is_dir = 1
                  THEN Outcome(rows, "")
                  ELSE Outcome(rows, "EEXIST")
        ELSE Outcome(InsertOrIgnore(rows, DirRow(normalized, ParentOf(parts), t)), "")

\* rmdir without the probe for a child row.
rmdir_removesNonEmpty(rows, path) ==
    LET normalized == StripTrailingSlashes(normalizePath(path))
        existing == SelectChunk0(rows, normalized)
    IN  IF normalized = <<>> THEN Outcome(rows, "Cannot remove root directory")
        ELSE IF existing = {} THEN Outcome(rows, "ENOENT")
        ELSE IF \E e \in existing : e.is_dir # 1 THEN Outcome(rows, "ENOTDIR")
        ELSE Outcome(DeleteWherePath(rows, normalized), "")

\* fs-adapter.ts rmdir
rmdir(rows, path) ==
    LET normalized == StripTrailingSlashes(normalizePath(path))
        existing == SelectChunk0(rows, normalized)
        children == {r \in rows : r.parent_path = normalized /\ r.chunk_index = 0}
    IN  IF normalized = <<>> THEN Outcome(rows, "Cannot remove root directory")
        ELSE IF existing = {} THEN Outcome(rows, "ENOENT")
        ELSE IF \E e \in existing : e.is_dir # 1 THEN Outcome(rows, "ENOTDIR")
        ELSE IF children # {} THEN Outcome(rows, "ENOTEMPTY")
        ELSE Outcome(DeleteWherePath(rows, normalized), "")

(***************************************************************************)
(* SqliteFS.rename                                                         *)
(***************************************************************************)
\* fs-adapter.ts rename, lines 491-496: the loop copying the source rows.
RECURSIVE CopyRows(_, _, _, _)
CopyRows(rows, source, newNorm, newParent) ==
    IF source = <<>> THEN rows
    ELSE LET row == Head(source)
             parentPath == IF row.chunk_index = 0 THEN newParent ELSE row.parent_path
         IN  CopyRows(InsertOrReplace(rows,
                          Row(newNorm, row.chunk_index, parentPath, row.data,
                              row.is_dir, row.size, row.mtime)),
                      Tail(source), newNorm, newParent)

\* fs-adapter.ts rename
rename(rows, oldPath, newPath) ==
    LET oldNorm == normalizePath(oldPath)
        newNorm == normalizePath(newPath)
        newParent == ParentOf(Split(newNorm))
        source == OrderByChunkIndex(SelectPath(rows, oldNorm))
    IN  IF source = <<>> THEN Outcome(rows, "ENOENT")
        ELSE Outcome(DeleteWherePath(CopyRows(rows, source, newNorm, newParent),
                                     oldNorm), "")

(***************************************************************************)
(* Schema and migration (SqliteFS.init, createSchema, migrateV1toV2).      *)
(* The store holds the table git_objects (absent, v1 or v2), the shadow    *)
(* table git_objects_v2 of a migration, and the indexes of git_objects.    *)
(***************************************************************************)
Store(version, objects, v2exists, v2rows, indexes) ==
    [version |-> version, objects |-> objects, v2exists |-> v2exists,
     v2rows |-> v2rows, indexes |-> indexes]

EmptyStore == Store("absent", {}, FALSE, {}, {})

Done(store, err) == [db |-> store, err |-> err]

\* INSERT OR IGNORE ... VALUES ('', 0, '', NULL, 1, now)
InsertRoot(rows, t) == InsertOrIgnore(rows, DirRow(<<>>, <<>>, t))

\* fs-adapter.ts migrateV1toV2, lines 109-112:
\* SELECT path, 0, parent_path, data, is_dir, 0, mtime FROM git_objects
CopiedRows(v1rows) ==
    {Row(r.path, 0, r.parent_path, r.data, r.is_dir, 0, r.mtime) : r \in v1rows}

\* One SQL statement of createSchema or migrateV1toV2 on the store.
Exec(stmt, s, t) ==
    CASE stmt = "CREATE TABLE git_objects" ->
           IF s.version # "absent" THEN Done(s, "SQLITE_ERROR")
           ELSE Done([s EXCEPT !.version = "v2", !.objects = {}], "")
      [] stmt = "CREATE TABLE git_objects_v2" ->
           IF s.v2exists THEN Done(s, "SQLITE_ERROR")
           ELSE Done([s EXCEPT !.v2exists = TRUE, !.v2rows = {}], "")
      [] stmt = "INSERT INTO git_objects_v2 SELECT" ->
           IF ~s.v2exists \/ s.version = "absent" THEN Done(s, "SQLITE_ERROR")
           ELSE IF \E r \in CopiedRows(s.objects) :
                      \E q \in s.v2rows : SamePK(q, r)
                THEN Done(s, "SQLITE_CONSTRAINT")
           ELSE Done([s EXCEPT !.v2rows = s.v2rows \cup CopiedRows(s.objects)], "")
      [] stmt = "DROP TABLE git_objects" ->
           IF s.version = "absent" THEN Done(s, "SQLITE_ERROR")
           ELSE Done([s EXCEPT !.version = "absent", !.objects = {},
                               !.indexes = {}], "")
      [] stmt = "ALTER TABLE git_objects_v2 RENAME TO git_objects" ->
           IF ~s.v2exists \/ s.version # "absent" THEN Done(s, "SQLITE_ERROR")
           ELSE Done([s EXCEPT !.version = "v2", !.objects = s.v2rows,
                               !.v2exists = FALSE, !.v2rows = {}], "")
      [] stmt = "CREATE INDEX idx_git_objects_parent" ->
           IF s.version = "absent" \/ "idx_git_objects_parent" \in s.indexes
           THEN Done(s, "SQLITE_ERROR")
           ELSE Done([s EXCEPT !.indexes = @ \cup {"idx_git_objects_parent"}], "")
      [] stmt = "CREATE INDEX idx_git_objects_is_dir" ->
           IF s.version = "absent" \/ "idx_git_objects_is_dir" \in s.indexes
           THEN Done(s, "SQLITE_ERROR")
           ELSE Done([s EXCEPT !.indexes = @ \cup {"idx_git_objects_is_dir"}], "")
      [] stmt = "INSERT OR IGNORE root" ->
           IF s.version # "v2" THEN Done(s, "SQLITE_ERROR")
           ELSE Done([s EXCEPT !.objects = InsertRoot(s.objects, t)], "")

\* fs-adapter.ts createSchema: its statements in order.
createSchema ==
    <<"CREATE TABLE git_objects",
      "CREATE INDEX idx_git_objects_parent",
      "CREATE INDEX idx_git_objects_is_dir",
      "INSERT OR IGNORE root">>

\* fs-adapter.ts migrateV1toV2: its statements in order.
migrateV1toV2 ==
    <<"CREATE TABLE git_objects_v2",
      "INSERT INTO git_objects_v2 SELECT",
      "DROP TABLE git_objects",
      "ALTER TABLE git_objects_v2 RENAME TO git_objects",
      "CREATE INDEX idx_git_objects_parent",
      "CREATE INDEX idx_git_objects_is_dir",
      "INSERT OR IGNORE root">>

Program(name) ==
    IF name = "createSchema" THEN createSchema
    ELSE IF name = "migrateV1toV2" THEN migrateV1toV2
    ELSE <<>>

\* fs-adapter.ts init, lines 57-64: the branch taken on PRAGMA table_info.
InitBranch(s) ==
    IF s.version = "absent" THEN "createSchema"
    ELSE IF s.version = "v1" THEN "migrateV1toV2"
    ELSE "v2"

\* The statements of a program run from index i on; a failing statement
\* throws and the rest is not run.
RECURSIVE RunFrom(_, _, _, _)
RunFrom(prog, i, s, t) ==
    IF i > Len(prog) THEN Done(s, "")
    ELSE LET r == Exec(prog[i], s, t)
         IN  IF r.err # "" THEN r ELSE RunFrom(prog, i + 1, r.db, t)

\* fs-adapter.ts init, run to its end.
init(s, t) == RunFrom(Program(InitBranch(s)), 1, s, t)

(***************************************************************************)
(* Text encoding of readFile({encoding: 'utf8'}) and writeFile(string).    *)
(* A string is a sequence of code points; "U+FEFF" is the byte order mark  *)
(* and "U+FFFD" the replacement character.                                 *)
(***************************************************************************)
CodePoints == {"/", "H", "a", "e", "h", "l", "o", "U+FEFF"}

\* The UTF-8 bytes of a code point.
Utf8(c) ==
    CASE c = "/" -> <<47>>
      [] c = "H" -> <<72>>
      [] c = "a" -> <<97>>
      [] c = "e" -> <<101>>
      [] c = "h" -> <<104>>
      [] c = "l" -> <<108>>
      [] c = "o" -> <<111>>
      [] c = "U+FEFF" -> <<239, 187, 191>>

\* new TextEncoder().encode(s)
RECURSIVE TextEncode(_)
TextEncode(s) ==
    IF s = <<>> THEN <<>> ELSE Utf8(Head(s)) \o TextEncode(Tail(s))

\* The code points of a byte sequence; a byte that starts no code point
\* decodes to the replacement character.
RECURSIVE DecodeUtf8(_)
DecodeUtf8(bytes) ==
    IF bytes = <<>> THEN <<>>
    ELSE IF \E c \in CodePoints : StartsWith(bytes, Utf8(c))
    THEN LET c == CHOOSE x \in CodePoints : StartsWith(bytes, Utf8(x))
         IN  <<c>> \o DecodeUtf8(SubSeq(bytes, Len(Utf8(c)) + 1, Len(bytes)))
    ELSE <<"U+FFFD">> \o DecodeUtf8(Tail(bytes))

\* new TextDecoder().decode(bytes): UTF-8, with a leading byte order mark
\* removed (ignoreBOM is false by default).
TextDecode(bytes) ==
    LET s == DecodeUtf8(bytes)
    IN  IF s # <<>> /\ Head(s) = "U+FEFF" THEN Tail(s) ELSE s

(***************************************************************************)
(* SqliteFS.symlink and readlink.                                          *)
(***************************************************************************)
\* fs-adapter.ts symlink
symlink(rows, target, path, t) == writeFile(rows, path, TextEncode(target), t)

\* fs-adapter.ts readlink: [err, target]
readlink(rows, path) ==
    LET r == readFile(rows, path)
    IN  [err |-> r.err,
         target |-> IF r.err = "" THEN TextDecode(r.bytes) ELSE <<>>]

(***************************************************************************)
(* MemFS (memfs.ts): the maps files and symlinks.                          *)
(***************************************************************************)
EmptyMap == [k \in {} |-> <<>>]

EmptyMem == [files |-> EmptyMap, symlinks |-> EmptyMap]

\* Map.prototype.set
MapSet(m, k, v) == [x \in (DOMAIN m) \cup {k} |-> IF x = k THEN v ELSE m[x]]

\* Map.prototype.delete
MapDelete(m, k) == [x \in (DOMAIN m) \ {k} |-> m[x]]

\* The outcome of a MemFS call: the maps it leaves and the error it raised.
MemOutcome(m, err) == [mem |-> m, err |-> err]

\* memfs.ts writeFile
MemFS_writeFile(m, path, bytes) ==
    MemOutcome([m EXCEPT !.files = MapSet(m.files, normalize(path), bytes)], "")

\* memfs.ts readFile: [err, bytes]; a Uint8Array is truthy whatever its length.
MemFS_readFile(m, path) ==
    LET normalized == normalize(path)
    IN  IF normalized \notin DOMAIN m.files
        THEN [err |-> "ENOENT", bytes |-> <<>>]
        ELSE [err |-> "", bytes |-> m.files[normalized]]

\* dirPath ? dirPath + '/' : ''
PrefixOf(normalized) == IF normalized # <<>> THEN normalized \o <<"/">> ELSE <<>>

\* filePath.slice(prefix.length).split('/')[0]
FirstPart(key, prefix) == Split(SubSeq(key, Len(prefix) + 1, Len(key)))[1]

\* memfs.ts readdir: [err, names], the names as the Set the code collects.
MemFS_readdir(m, dirPath) ==
    LET prefix == PrefixOf(normalize(dirPath))
        keys == (DOMAIN m.files) \cup (DOMAIN m.symlinks)
    IN  [err |-> "",
         names |-> {FirstPart(k, prefix) :
                      k \in {x \in keys : /\ StartsWith(x, prefix)
                                          /\ FirstPart(x, prefix) # <<>>}}]

\* memfs.ts stat: [err, type, mode, size]
MemFS_stat(m, path) ==
    LET normalized == normalize(path)
        prefix == PrefixOf(normalized)
        keys == (DOMAIN m.files) \cup (DOMAIN m.symlinks)
    IN  IF normalized \in DOMAIN m.symlinks
        THEN LET target == normalize(m.symlinks[normalized])
             IN  [err |-> "", type |-> "file", mode |-> 33188,
                  size |-> IF target \in DOMAIN m.files
                           THEN Len(m.files[target]) ELSE 0]
        ELSE IF normalized \in DOMAIN m.files
        THEN [err |-> "", type |-> "file", mode |-> 33188,
              size |-> Len(m.files[normalized])]
        ELSE IF \E k \in keys : StartsWith(k, prefix)
        THEN [err |-> "", type |-> "dir", mode |-> 16877, size |-> 0]
        ELSE [err |-> "ENOENT", type |-> "", mode |-> 0, size |-> 0]

\* memfs.ts unlink
MemFS_unlink(m, path) ==
    MemOutcome([files |-> MapDelete(m.files, normalize(path)),
                symlinks |-> MapDelete(m.symlinks, normalize(path))], "")

\* memfs.ts symlink
MemFS_symlink(m, target, path) ==
    MemOutcome([m EXCEPT !.symlinks = MapSet(m.symlinks, normalize(path), target)], "")

\* memfs.ts readlink: [err, target]; the empty string is falsy.
MemFS_readlink(m, path) ==
    LET normalized == normalize(path)
    IN  IF normalized \notin DOMAIN m.symlinks \/ m.symlinks[normalized] = <<>>
        THEN [err |-> "ENOENT", target |-> <<>>]
        ELSE [err |-> "", target |-> m.symlinks[normalized]]

\* memfs.ts rename: a Uint8Array is truthy whatever its length.
MemFS_rename(m, oldPath, newPath) ==
    LET oldNormalized == normalize(oldPath)
        newNormalized == normalize(newPath)
    IN  IF oldNormalized \in DOMAIN m.files
        THEN MemOutcome([m EXCEPT !.files =
                           MapDelete(MapSet(m.files, newNormalized,
                                            m.files[oldNormalized]),
                                     oldNormalized)], "")
        ELSE MemOutcome(m, "")

(***************************************************************************)
(* Inputs.                                                                 *)
(***************************************************************************)
\* The byte sequence of length k: the bytes of "hello", repeated.
Content(k) == [i \in 1..k |-> <<104, 101, 108, 108, 111>>[((i - 1) % 5) + 1]]

\* The byte sequences written: empty, less than a chunk, a full chunk,
\* several chunks.
Datas == {Content(k) : k \in 0..MaxLen}

\* The raw paths given to the calls: the root, files and directories at two
\* depths, and a path with a leading slash.
InPaths == {<<>>, <<"a">>, <<"b">>, <<"a", "/", "b">>, <<"/", "b">>}

NoProbe == [fn |-> "", arg |-> <<>>, out |-> <<>>]

NoRun == [prog |-> "none", i |-> 0]

\* The callers that share one SqliteFS instance.
Callers == {1, 2}

\* A caller that has made no call in the current round.
IdleCall ==
    [op |-> "none", path |-> <<>>, arg |-> <<>>, pos |-> 0, local |-> <<>>,
     err |-> "", out |-> <<>>, state |-> "idle", seen |-> {}]

NoCalls == [c \in Callers |-> IdleCall]

(***************************************************************************)
(* The filesystem on a fresh store: init() and the mutating calls.         *)
(***************************************************************************)
Init ==
    /\ db = EmptyStore
    /\ now = 0
    /\ pc = NoRun
    /\ ran = "never"
    /\ seed = {}
    /\ interrupted = FALSE
    /\ probe = NoProbe
    /\ mem = EmptyMem
    /\ calls = NoCalls
    /\ base = {}

\* A (new) instance is constructed on the store and init() runs to its end.
InitCall ==
    LET r == init(db, now)
    IN  /\ db' = r.db
        /\ ran' = IF r.err = "" THEN "returned" ELSE "threw"
        /\ UNCHANGED <<now, pc, seed, interrupted, probe, mem, calls, base>>

\* The instance is initialised: its calls find the v2 table.
Ready == ran = "returned" /\ db.version = "v2"

\* The call's outcome applied to the store.
Apply(r) ==
    /\ db' = [db EXCEPT !.objects = r.rows]
    /\ UNCHANGED <<now, pc, ran, seed, interrupted, probe, mem, calls, base>>

WriteFileCall(path, bytes) ==
    /\ Ready
    /\ Apply(writeFile(db.objects, path, bytes, now))

UnlinkCall(path) ==
    /\ Ready
    /\ Apply(unlink(db.objects, path))

MkdirCall(path) ==
    /\ Ready
    /\ Apply(mkdir(db.objects, path, now))

RmdirCall(path) ==
    /\ Ready
    /\ Apply(rmdir(db.objects, path))

RenameCall(oldPath, newPath) ==
    /\ Ready
    /\ Apply(rename(db.objects, oldPath, newPath))

Next ==
    \/ InitCall
    \/ \E path \in InPaths, bytes \in Datas : WriteFileCall(path, bytes)
    \/ \E path \in InPaths : UnlinkCall(path)
    \/ \E path \in InPaths : MkdirCall(path)
    \/ \E path \in InPaths : RmdirCall(path)
    \/ \E oldPath \in InPaths, newPath \in InPaths : RenameCall(oldPath, newPath)

Spec == Init /\ [][Next]_vars

(***************************************************************************)
(* Vocabulary of the properties.                                           *)
(***************************************************************************)
\* The chunk indexes stored for a path.
ChunkIndexes(rows, p) == {r.chunk_index : r \in SelectPath(rows, p)}

IsDirectory(rows, p) == \E r \in SelectChunk0(rows, p) : r.is_dir = 1

\* The canonical paths of the proper ancestors of a canonical path: what
\* precedes each of its separators.
ProperAncestors(p) == {SubSeq(p, 1, k - 1) : k \in {i \in 1..Len(p) : p[i] = "/"}}

\* The canonical path of the containing directory: what precedes the last
\* separator, the root for a path without one.
ContainingDir(p) ==
    IF ProperAncestors(p) = {} THEN <<>>
    ELSE CHOOSE q \in ProperAncestors(p) : \A x \in ProperAncestors(p) : Len(x) <= Len(q)

\* ceil(n / CHUNK_SIZE)
CeilChunks(n) == CHOOSE k \in 0..n : k * CHUNK_SIZE >= n /\ (k = 0 \/ (k - 1) * CHUNK_SIZE < n)

\* A path holds more rows than the size on its chunk 0 needs.
HasStaleRows(rows, p) ==
    \E r \in SelectChunk0(rows, p) :
        \E q \in SelectPath(rows, p) : q.chunk_index >= Max(1, CeilChunks(r.size))

(***************************************************************************)
(* C1.  For every non-empty path p that is not an existing directory and   *)
(* every byte sequence b (empty, or longer than a chunk), writeFile(p, b)  *)
(* returns, and then readFile(p) returns exactly b and stat(p).size is     *)
(* the length of b, whatever rows p had before.                            *)
(***************************************************************************)
C1_WriteThenRead ==
    Ready =>
      \A p \in InPaths, b \in Datas :
        LET r == writeFile(db.objects, p, b, now)
            st == stat(r.rows, p)
        IN  (normalizePath(p) # <<>> /\ ~IsDirectory(db.objects, normalizePath(p)))
              => /\ r.err = ""
                 /\ readFile(r.rows, p) = [err |-> "", bytes |-> b]
                 /\ st.err = ""
                 /\ st.size = Len(b)

\* A file of several chunks has been written and reads back whole, while
\* another path holds stale rows that a write will meet.
C1_Witness ==
    /\ Ready
    /\ \E p \in InPaths :
         /\ Cardinality(SelectPath(db.objects, normalizePath(p))) >= 2
         /\ readFile(db.objects, p) = [err |-> "", bytes |-> Content(MaxLen)]
         /\ stat(db.objects, p).size = MaxLen
    /\ \E q \in InPaths :
         /\ HasStaleRows(db.objects, normalizePath(q))
         /\ ~IsDirectory(db.objects, normalizePath(q))

(***************************************************************************)
(* C2.  For paths a and b where a is a file, in any reachable state (also  *)
(* when b already has more chunks than a), after rename(a, b) readFile(b)  *)
(* returns the bytes readFile(a) returned before, and readFile(a) raises   *)
(* ENOENT.  Stated for a and b that name different paths.                  *)
(***************************************************************************)
C2_RenameMovesBytes ==
    Ready =>
      \A a \in InPaths, b \in InPaths :
        LET before == readFile(db.objects, a)
            r == rename(db.objects, a, b)
        IN  (before.err = "" /\ normalizePath(a) # normalizePath(b))
              => /\ r.err = ""
                 /\ readFile(r.rows, b) = before
                 /\ readFile(r.rows, a).err = "ENOENT"

(***************************************************************************)
(* C3.  In every state reachable from init() no path has both a row with   *)
(* is_dir = 1 and a row with is_dir = 0.                                   *)
(***************************************************************************)
C3_NoMixedPath ==
    Ready =>
      \A r \in db.objects, q \in db.objects :
        r.path = q.path => ~(r.is_dir = 1 /\ q.is_dir = 0)

(***************************************************************************)
(* C4.  When writeFile(p, _) returns, every proper ancestor path of p has  *)
(* a chunk-0 row with is_dir = 1, in any reachable prior state, also one   *)
(* where an ancestor already exists as a file.                             *)
(***************************************************************************)
C4_AncestorsAreDirs ==
    Ready =>
      \A p \in InPaths, b \in Datas :
        LET r == writeFile(db.objects, p, b, now)
        IN  r.err = "" =>
              \A anc \in ProperAncestors(normalizePath(p)) : IsDirectory(r.rows, anc)

(***************************************************************************)
(* C5.  After writeFile(p, b) returns the rows of p are exactly the chunk  *)
(* indexes 0..N-1 with N = max(1, ceil(len(b) / C)), however many rows p   *)
(* had before; row 0 has parent_path = parent_of(p) and size = len(b), and *)
(* every later row has parent_path = "" and size = 0.                      *)
(***************************************************************************)
C5_ChunkRows ==
    Ready =>
      \A p \in InPaths, b \in Datas :
        LET r == writeFile(db.objects, p, b, now)
            n == normalizePath(p)
        IN  r.err = "" =>
              /\ ChunkIndexes(r.rows, n) = 0..(Max(1, CeilChunks(Len(b))) - 1)
              /\ Cardinality(SelectPath(r.rows, n)) = Max(1, CeilChunks(Len(b)))
              /\ \A row \in SelectPath(r.rows, n) :
                   IF row.chunk_index = 0
                   THEN row.parent_path = ContainingDir(n) /\ row.size = Len(b)
                   ELSE row.parent_path = <<>> /\ row.size = 0

\* A file below a directory is stored in several rows: row 0 names the
\* directory, the continuation row names the root; and a path with stale rows
\* is there for a write to replace.
C5_Witness ==
    /\ Ready
    /\ \E r0 \in db.objects, r1 \in db.objects :
         /\ r0.path = r1.path
         /\ r0.chunk_index = 0 /\ r0.is_dir = 0 /\ r0.size = MaxLen
         /\ r0.parent_path # <<>> /\ r0.parent_path = ContainingDir(r0.path)
         /\ r1.chunk_index = 1 /\ r1.parent_path = <<>> /\ r1.size = 0
    /\ \E q \in InPaths :
         /\ HasStaleRows(db.objects, normalizePath(q))
         /\ ~IsDirectory(db.objects, normalizePath(q))

(***************************************************************************)
(* C6.  In every state reachable from a freshly created store, each file   *)
(* whose chunk-0 row records size S > 0 has rows at exactly the chunk      *)
(* indexes 0..ceil(S/C)-1, every chunk with index >= 1 holds non-null      *)
(* data, and each empty file is a single chunk-0 row with non-null         *)
(* zero-length data.                                                       *)
(***************************************************************************)
C6_ChunkSequence ==
    Ready =>
      \A r \in db.objects :
        (r.chunk_index = 0 /\ r.is_dir = 0) =>
          IF r.size > 0
          THEN /\ ChunkIndexes(db.objects, r.path) = 0..(CeilChunks(r.size) - 1)
               /\ \A q \in SelectPath(db.objects, r.path) :
                    q.chunk_index >= 1 => q.data.kind # "null"
          ELSE /\ SelectPath(db.objects, r.path) = {r}
               /\ r.data.kind # "null"
               /\ rowDataToBytes(r.data) = <<>>

(***************************************************************************)
(* C9.  Whenever init() returns, whether the table was absent, at v1 or    *)
(* already at v2, a row (path = "", chunk_index = 0) with is_dir = 1       *)
(* exists in git_objects.                                                  *)
(***************************************************************************)
C9_RootAfterInit ==
    LET r == init(db, now)
    IN  r.err = "" => \E row \in r.db.objects :
                        row.path = <<>> /\ row.chunk_index = 0 /\ row.is_dir = 1

(***************************************************************************)
(* init() on a legacy store, statement by statement.                       *)
(* The store starts at v1 with rows a legacy writer left; an init() run    *)
(* may be interrupted between two statements, and init() runs again on     *)
(* what the statements so far left.                                        *)
(***************************************************************************)
\* What the legacy store holds for a path: a directory, or a file whose bytes
\* are stored as base64 text or as a blob.
SeedDir(path, parent_path, mtime) ==
    [path |-> path, parent_path |-> parent_path, is_dir |-> 1, fmt |-> "null",
     bytes |-> <<>>, mtime |-> mtime]

SeedFile(path, parent_path, fmt, bytes, mtime) ==
    [path |-> path, parent_path |-> parent_path, is_dir |-> 0, fmt |-> fmt,
     bytes |-> bytes, mtime |-> mtime]

\* The data column of the legacy row.
SeedData(s) ==
    IF s.fmt = "text" THEN Text(B64Encode(s.bytes))
    ELSE IF s.fmt = "blob" THEN Blob(s.bytes)
    ELSE NULL

SeedRow(s) == V1Row(s.path, s.parent_path, SeedData(s), s.is_dir, s.mtime)

\* The entries a legacy store may hold at a top-level path.
SeedsAt(path, mtime) ==
    {{}, {SeedDir(path, <<>>, mtime)}}
      \cup {{SeedFile(path, <<>>, fmt, bytes, mtime)} :
              fmt \in {"text", "blob"}, bytes \in Datas}

\* The legacy stores: at most one row per path, with or without a root row.
Seeds ==
    {r \cup a \cup b :
       r \in {{}, {SeedDir(<<>>, <<>>, 1)}},
       a \in SeedsAt(<<"a">>, 2),
       b \in SeedsAt(<<"b">>, 3)}

InitMig ==
    /\ seed \in Seeds
    /\ db = Store("v1", {SeedRow(s) : s \in seed}, FALSE, {},
                  {"idx_git_objects_parent", "idx_git_objects_is_dir"})
    /\ now = 4
    /\ pc = NoRun
    /\ ran = "never"
    /\ interrupted = FALSE
    /\ probe = NoProbe
    /\ mem = EmptyMem
    /\ calls = NoCalls
    /\ base = {}

\* init() is called on a new instance and reads PRAGMA table_info.
InitBegin ==
    /\ ran # "running"
    /\ pc' = [prog |-> InitBranch(db), i |-> 1]
    /\ ran' = IF Program(InitBranch(db)) = <<>> THEN "returned" ELSE "running"
    /\ UNCHANGED <<db, now, seed, interrupted, probe, mem, calls, base>>

\* The next statement of createSchema or migrateV1toV2 runs.
InitStep ==
    /\ ran = "running"
    /\ LET prog == Program(pc.prog)
           r == Exec(prog[pc.i], db, now)
       IN  /\ db' = r.db
           /\ pc' = IF r.err = "" THEN [pc EXCEPT !.i = pc.i + 1] ELSE pc
           /\ ran' = IF r.err # "" THEN "threw"
                     ELSE IF pc.i + 1 > Len(prog) THEN "returned"
                     ELSE "running"
    /\ UNCHANGED <<now, seed, interrupted, probe, mem, calls, base>>

\* The run is interrupted after one of its statements, before its last.
Interrupt ==
    /\ ran = "running"
    /\ pc.i > 1
    /\ ~interrupted
    /\ ran' = "interrupted"
    /\ interrupted' = TRUE
    /\ UNCHANGED <<db, now, pc, seed, probe, mem, calls, base>>

NextMig == InitBegin \/ InitStep \/ Interrupt

SpecMig == InitMig /\ [][NextMig]_vars

(***************************************************************************)
(* C7.  If init() on a v1 store is interrupted after any one statement of  *)
(* the migration and init() is run again on the resulting store, init()    *)
(* completes and every v1 row is still present in git_objects as a chunk-0 *)
(* row with the same data.                                                 *)
(***************************************************************************)
C7_MigrationAtomic ==
    (interrupted /\ ran \in {"returned", "threw"}) =>
      /\ ran = "returned"
      /\ db.version = "v2"
      /\ \A s \in seed :
           \E r \in db.objects :
             r.path = s.path /\ r.chunk_index = 0 /\ r.data = SeedData(s)

(***************************************************************************)
(* C8.  After init() migrates a v1 table, every v1 row appears exactly     *)
(* once, as (path, chunk_index = 0) with the same parent_path, data,       *)
(* is_dir and mtime and with size = 0; for every v1 file row readFile      *)
(* returns the bytes its data decoded to (base64 text decoded, a blob as   *)
(* it is) and stat's size is that byte count.                              *)
(***************************************************************************)
C8_MigrationPreserves ==
    (ran = "returned" /\ pc.prog = "migrateV1toV2") =>
      /\ db.version = "v2"
      /\ \A s \in seed :
           /\ SelectPath(db.objects, s.path)
                = {Row(s.path, 0, s.parent_path, SeedData(s), s.is_dir, 0, s.mtime)}
           /\ s.is_dir = 0 =>
                /\ readFile(db.objects, s.path) = [err |-> "", bytes |-> s.bytes]
                /\ stat(db.objects, s.path).err = ""
                /\ stat(db.objects, s.path).size = Len(s.bytes)

\* A migration has returned on a store that held a padded base64 text and a
\* blob.
C8_Witness ==
    /\ ran = "returned"
    /\ pc.prog = "migrateV1toV2"
    /\ \E s \in seed : s.fmt = "text" /\ TrailingEquals(SeedData(s).v) > 0
    /\ \E s \in seed : s.fmt = "blob" /\ Len(s.bytes) > 0

(***************************************************************************)
(* The path normalisers on raw strings.                                    *)
(***************************************************************************)
NormChars == {"/", ".", "a"}

RawStrings == UNION {[1..n -> NormChars] : n \in 0..MaxStrLen}

InitNorm ==
    /\ probe \in {[fn |-> "", arg |-> s, out |-> <<>>] : s \in RawStrings}
    /\ db = EmptyStore
    /\ now = 0
    /\ pc = NoRun
    /\ ran = "never"
    /\ seed = {}
    /\ interrupted = FALSE
    /\ mem = EmptyMem
    /\ calls = NoCalls
    /\ base = {}

\* SqliteFS normalises the path of a call.
NormalizePathCall ==
    /\ probe.fn = ""
    /\ probe' = [probe EXCEPT !.fn = "normalizePath", !.out = normalizePath(probe.arg)]
    /\ UNCHANGED <<db, now, pc, ran, seed, interrupted, mem, calls, base>>

\* MemFS normalises the path of a call.
NormalizeCall ==
    /\ probe.fn = ""
    /\ probe' = [probe EXCEPT !.fn = "normalize", !.out = normalize(probe.arg)]
    /\ UNCHANGED <<db, now, pc, ran, seed, interrupted, mem, calls, base>>

NextNorm == NormalizePathCall \/ NormalizeCall

SpecNorm == InitNorm /\ [][NextNorm]_vars

(***************************************************************************)
(* C10.  The normaliser of each filesystem (normalizePath of SqliteFS,     *)
(* normalize of MemFS) is idempotent on every input string, and maps       *)
(* "/a", "a" and "./a" all to "a".                                         *)
(***************************************************************************)
C10_NormalizeIdempotent ==
    /\ probe.fn = "normalizePath" => normalizePath(probe.out) = probe.out
    /\ probe.fn = "normalize" => normalize(probe.out) = probe.out
    /\ (probe.fn # "" /\ probe.arg \in {<<"/", "a">>, <<"a">>, <<".", "/", "a">>})
         => probe.out = <<"a">>

(***************************************************************************)
(* SqliteFS.readdir and exists.                                            *)
(***************************************************************************)
\* segments[segments.length - 1]
Basename(path) == Split(path)[Len(Split(path))]

\* The rows of a listing without the restriction to chunk 0.
SelectChildren_allChunks(rows, normalized) ==
    {r \in rows : r.parent_path = normalized /\ r.path # normalized}

\* fs-adapter.ts readdir, lines 285-287:
\* SELECT path ... WHERE parent_path = ? AND path != ? AND chunk_index = 0
SelectChildren(rows, normalized) ==
    {r \in rows : /\ r.parent_path = normalized
                  /\ r.path # normalized
                  /\ r.chunk_index = 0}

\* The array a listing returns, without its order: each name with the number
\* of times it occurs.
NamesOf(sel) ==
    [n \in {Basename(r.path) : r \in sel} |->
       Cardinality({r \in sel : Basename(r.path) = n})]

\* fs-adapter.ts readdir: [err, names]
readdir(rows, path) ==
    LET normalized == StripTrailingSlashes(normalizePath(path))
        dirCheck == SelectChunk0(rows, normalized)
    IN  IF dirCheck = {} THEN [err |-> "ENOENT", names |-> <<>>]
        ELSE IF \E d \in dirCheck : d.is_dir = 0
             THEN [err |-> "ENOTDIR", names |-> <<>>]
        ELSE [err |-> "", names |-> NamesOf(SelectChildren(rows, normalized))]

\* fs-adapter.ts exists: [err, value]
exists(rows, path) ==
    LET st == stat(rows, path)
    IN  IF st.err = "" THEN [err |-> "", value |-> TRUE]
        ELSE IF st.err = "ENOENT" THEN [err |-> "", value |-> FALSE]
        ELSE [err |-> st.err, value |-> FALSE]

(***************************************************************************)
(* C11.  unlink(p) raises ENOENT when p has no chunk-0 row and EPERM when  *)
(* p is a directory, changing nothing; otherwise it returns and removes    *)
(* every row of p (all chunks), so that readFile(p) and stat(p) then raise *)
(* ENOENT, while the rows of every other path are unchanged.               *)
(***************************************************************************)
C11_Unlink ==
    Ready =>
      \A p \in InPaths :
        LET n == normalizePath(p)
            r == unlink(db.objects, p)
        IN  IF SelectChunk0(db.objects, n) = {}
            THEN r = Outcome(db.objects, "ENOENT")
            ELSE IF IsDirectory(db.objects, n)
            THEN r = Outcome(db.objects, "EPERM")
            ELSE /\ r.err = ""
                 /\ SelectPath(r.rows, n) = {}
                 /\ readFile(r.rows, p).err = "ENOENT"
                 /\ stat(r.rows, p).err = "ENOENT"
                 /\ {q \in r.rows : q.path # n} = {q \in db.objects : q.path # n}

\* The three cases are there together: a file of several chunks to unlink
\* beside other rows, a directory, and an absent path.
C11_Witness ==
    /\ Ready
    /\ \E p \in InPaths :
         /\ ~IsDirectory(db.objects, normalizePath(p))
         /\ Cardinality(SelectPath(db.objects, normalizePath(p))) >= 2
         /\ unlink(db.objects, p).err = ""
    /\ \E p \in InPaths : normalizePath(p) # <<>> /\ unlink(db.objects, p).err = "EPERM"
    /\ \E p \in InPaths : unlink(db.objects, p).err = "ENOENT"

(***************************************************************************)
(* C12.  rmdir(p) for non-root p raises ENOENT when p is absent, ENOTDIR   *)
(* when p is a file, and on a directory raises ENOTEMPTY exactly when some *)
(* chunk-0 row has parent_path = p, and otherwise deletes the directory    *)
(* row.  A directory that contains a file or a subdirectory is never       *)
(* removed, and once its last child is unlinked rmdir succeeds.            *)
(***************************************************************************)
C12_Rmdir ==
    Ready =>
      \A p \in InPaths :
        LET n == StripTrailingSlashes(normalizePath(p))
            r == rmdir(db.objects, p)
            kids == {q \in db.objects : q.parent_path = n /\ q.chunk_index = 0}
            contained == {q \in db.objects : /\ q.path # <<>>
                                             /\ ContainingDir(q.path) = n}
        IN  n # <<>> =>
              IF SelectChunk0(db.objects, n) = {}
              THEN r = Outcome(db.objects, "ENOENT")
              ELSE IF ~IsDirectory(db.objects, n)
              THEN r = Outcome(db.objects, "ENOTDIR")
              ELSE /\ (r.err = "ENOTEMPTY") <=> (kids # {})
                   /\ kids # {} => r.rows = db.objects
                   /\ kids = {} => r = Outcome(DeleteWherePath(db.objects, n), "")
                   /\ contained # {} => (r.err # "" /\ r.rows = db.objects)
                   /\ \A c \in InPaths :
                        LET u == unlink(db.objects, c)
                        IN  (u.err = "" /\ kids = SelectChunk0(db.objects, normalizePath(c)))
                              => /\ r.err = "ENOTEMPTY"
                                 /\ rmdir(u.rows, p).err = ""
                                 /\ SelectPath(rmdir(u.rows, p).rows, n) = {}

\* A directory holds a file as its only child, another directory is empty,
\* and a third path is a file.
C12_Witness ==
    /\ Ready
    /\ \E p \in InPaths, c \in InPaths :
         /\ normalizePath(p) # <<>>
         /\ IsDirectory(db.objects, normalizePath(p))
         /\ rmdir(db.objects, p).err = "ENOTEMPTY"
         /\ unlink(db.objects, c).err = ""
         /\ rmdir(unlink(db.objects, c).rows, p).err = ""
    /\ \E p \in InPaths : rmdir(db.objects, p).err = "ENOTDIR"
    /\ \E p \in InPaths :
         /\ rmdir(db.objects, p).err = ""
         /\ rmdir(db.objects, p).rows # db.objects

(***************************************************************************)
(* C13.  mkdir(p) is not recursive.  For non-root p, in this order: when   *)
(* p has depth > 1 and its parent is absent or is a file it raises ENOENT  *)
(* and inserts nothing; when p exists as a directory it returns without    *)
(* changing any row; when p exists as a file it raises EEXIST; otherwise   *)
(* it inserts exactly one chunk-0 directory row, with parent_path =        *)
(* parent_of(p).                                                           *)
(***************************************************************************)
C13_Mkdir ==
    Ready =>
      \A p \in InPaths :
        LET n == StripTrailingSlashes(normalizePath(p))
            r == mkdir(db.objects, p, now)
        IN  n # <<>> =>
              IF ProperAncestors(n) # {} /\ ~IsDirectory(db.objects, ContainingDir(n))
              THEN r = Outcome(db.objects, "ENOENT")
              ELSE IF IsDirectory(db.objects, n)
              THEN r = Outcome(db.objects, "")
              ELSE IF SelectChunk0(db.objects, n) # {}
              THEN r = Outcome(db.objects, "EEXIST")
              ELSE /\ r.err = ""
                   /\ db.objects \subseteq r.rows
                   /\ r.rows \ db.objects
                        = {Row(n, 0, ContainingDir(n), NULL, 1, 0, now)}

\* A path of depth 2 has no parent to be made under, a path is a file, and
\* a directory that holds a file can be made again or have a subdirectory.
C13_Witness ==
    /\ Ready
    /\ \E p \in InPaths :
         /\ ProperAncestors(normalizePath(p)) # {}
         /\ mkdir(db.objects, p, now).err = "ENOENT"
    /\ \E p \in InPaths : mkdir(db.objects, p, now).err = "EEXIST"
    /\ \E p \in InPaths :
         /\ normalizePath(p) # <<>>
         /\ IsDirectory(db.objects, normalizePath(p))
         /\ mkdir(db.objects, p, now) = Outcome(db.objects, "")

(***************************************************************************)
(* C14.  readdir(d) on an existing directory d returns the basename of     *)
(* each direct child of d exactly once and nothing else: a file stored in  *)
(* several chunks is listed once, continuation chunks never appear in the  *)
(* listing of the root, and the root never lists itself.  On an absent     *)
(* path it raises ENOENT and on a file ENOTDIR.                            *)
(***************************************************************************)
C14_Readdir ==
    Ready =>
      \A d \in InPaths :
        LET n == StripTrailingSlashes(normalizePath(d))
            r == readdir(db.objects, d)
            childPaths == {q.path : q \in {x \in db.objects :
                              x.path # <<>> /\ ContainingDir(x.path) = n}}
        IN  IF SelectChunk0(db.objects, n) = {}
            THEN r.err = "ENOENT"
            ELSE IF ~IsDirectory(db.objects, n)
            THEN r.err = "ENOTDIR"
            ELSE /\ r.err = ""
                 /\ r.names = [x \in {Basename(c) : c \in childPaths} |-> 1]
                 /\ <<>> \notin DOMAIN r.names

\* The root lists a file of several chunks beside a directory that lists a
\* child of its own.
C14_Witness ==
    /\ Ready
    /\ readdir(db.objects, <<>>).err = ""
    /\ \E r \in db.objects :
         /\ r.chunk_index >= 1
         /\ Basename(r.path) \in DOMAIN readdir(db.objects, <<>>).names
    /\ \E d \in InPaths :
         /\ normalizePath(d) # <<>>
         /\ readdir(db.objects, d).err = ""
         /\ DOMAIN readdir(db.objects, d).names # {}
         /\ Basename(normalizePath(d)) \in DOMAIN readdir(db.objects, <<>>).names

(***************************************************************************)
(* C15.  readFile(p) raises ENOENT when p has no chunk-0 row and EISDIR    *)
(* when p is a directory; writeFile(p, _) raises an error without a code   *)
(* when p normalises to the root and EISDIR when p is an existing          *)
(* directory; otherwise both return.                                       *)
(***************************************************************************)
C15_ReadWriteErrors ==
    Ready =>
      \A p \in InPaths :
        LET n == normalizePath(p)
            rd == readFile(db.objects, p)
        IN  /\ IF SelectChunk0(db.objects, n) = {} THEN rd.err = "ENOENT"
               ELSE IF IsDirectory(db.objects, n) THEN rd.err = "EISDIR"
               ELSE rd.err = ""
            /\ \A b \in Datas :
                 LET wr == writeFile(db.objects, p, b, now)
                 IN  IF n = <<>>
                     THEN wr = Outcome(db.objects, "Cannot write to root")
                     ELSE IF IsDirectory(db.objects, n)
                     THEN wr = Outcome(db.objects, "EISDIR")
                     ELSE wr.err = ""

\* A directory, a file and an absent path are there to read and to write.
C15_Witness ==
    /\ Ready
    /\ \E p \in InPaths :
         /\ normalizePath(p) # <<>>
         /\ readFile(db.objects, p).err = "EISDIR"
         /\ writeFile(db.objects, p, Content(1), now).err = "EISDIR"
    /\ \E p \in InPaths : readFile(db.objects, p).err = "ENOENT"
    /\ \E p \in InPaths :
         /\ readFile(db.objects, p).err = ""
         /\ writeFile(db.objects, p, Content(MaxLen), now).err = ""

(***************************************************************************)
(* C18.  In every state reachable from init() by any sequence of public    *)
(* operations, every non-root path that has any row in the table has a row *)
(* at chunk_index 0.                                                       *)
(***************************************************************************)
C18_ChunkZero ==
    Ready =>
      \A r \in db.objects :
        r.path # <<>> => SelectChunk0(db.objects, r.path) # {}

\* Continuation rows are there, written by writeFile and left or copied by
\* rename.
C18_Witness ==
    /\ Ready
    /\ \E r \in db.objects : r.path # <<>> /\ r.chunk_index >= 1
    /\ \E q \in InPaths :
         normalizePath(q) # <<>> /\ HasStaleRows(db.objects, normalizePath(q))

(***************************************************************************)
(* A MemFS and a SqliteFS side by side: the MemFS is constructed empty,    *)
(* the SqliteFS is initialised on a fresh store, and every mutating call   *)
(* is made on both.                                                        *)
(***************************************************************************)
\* The canonical paths written, unlinked and linked.
MemPaths == {<<"a">>, <<"a", "/", "b">>}

\* The canonical paths asked about: those, the root and a path never written.
QueryPaths == MemPaths \cup {<<>>, <<"b">>}

\* The link targets: the empty string, a name, and a name that begins with a
\* byte order mark.
Targets == {<<>>, <<"a">>, <<"U+FEFF", "a">>}

\* Both filesystems after a call on each.
ApplyBoth(r, m) ==
    /\ db' = [db EXCEPT !.objects = r.rows]
    /\ mem' = m.mem
    /\ UNCHANGED <<now, pc, ran, seed, interrupted, probe, calls, base>>

WriteFileBoth(path, bytes) ==
    /\ Ready
    /\ ApplyBoth(writeFile(db.objects, path, bytes, now),
                 MemFS_writeFile(mem, path, bytes))

UnlinkBoth(path) ==
    /\ Ready
    /\ ApplyBoth(unlink(db.objects, path), MemFS_unlink(mem, path))

SymlinkBoth(target, path) ==
    /\ Ready
    /\ ApplyBoth(symlink(db.objects, target, path, now),
                 MemFS_symlink(mem, target, path))

NextMem ==
    \/ InitCall
    \/ \E path \in MemPaths, bytes \in Datas : WriteFileBoth(path, bytes)
    \/ \E path \in MemPaths : UnlinkBoth(path)
    \/ \E target \in Targets, path \in MemPaths : SymlinkBoth(target, path)

SpecMem == Init /\ [][NextMem]_vars

(***************************************************************************)
(* C16.  symlink(t, p) followed by readlink(p) returns t, for every target *)
(* string t including the empty string, on SqliteFS (for p that is neither *)
(* the root nor a directory) and on MemFS.                                 *)
(***************************************************************************)
C16_SymlinkReadlink ==
    Ready =>
      \A t \in Targets, p \in MemPaths :
        /\ ~IsDirectory(db.objects, normalizePath(p)) =>
             LET r == symlink(db.objects, t, p, now)
             IN  /\ r.err = ""
                 /\ readlink(r.rows, p) = [err |-> "", target |-> t]
        /\ LET m == MemFS_symlink(mem, t, p)
           IN  /\ m.err = ""
               /\ MemFS_readlink(m.mem, p) = [err |-> "", target |-> t]

(***************************************************************************)
(* C20.  Starting from an empty MemFS and a freshly initialised SqliteFS,  *)
(* after any sequence of writeFile and unlink calls on canonical paths     *)
(* made on both, each writeFile, readFile, unlink, readdir and stat call   *)
(* returns the same value (bytes, set of entries, type and size) or raises *)
(* the same error code in both.  (States that hold no MemFS link are the   *)
(* states such sequences reach; MemFS has no exists method to compare.)    *)
(***************************************************************************)
C20_SameContract ==
    (Ready /\ DOMAIN mem.symlinks = {}) =>
      \A p \in QueryPaths :
        LET sr == readFile(db.objects, p)
            mr == MemFS_readFile(mem, p)
            sd == readdir(db.objects, p)
            md == MemFS_readdir(mem, p)
            ss == stat(db.objects, p)
            ms == MemFS_stat(mem, p)
        IN  /\ sr = mr
            /\ sd.err = md.err
            /\ sd.err = "" => DOMAIN sd.names = md.names
            /\ ss.err = ms.err
            /\ ss.err = "" => (ss.type = ms.type /\ ss.size = ms.size)
            /\ unlink(db.objects, p).err = MemFS_unlink(mem, p).err
            /\ \A b \in Datas :
                 p # <<>> =>
                   writeFile(db.objects, p, b, now).err = MemFS_writeFile(mem, p, b).err

(***************************************************************************)
(* SqliteFS.exportGitObjects.                                              *)
(***************************************************************************)
\* The characters of the paths below, in the order of their byte values.
CharOrder == <<".", "/", "G", "I", "T", "a", "b", "g", "i", "t">>

CharRank(c) == CHOOSE i \in 1..Len(CharOrder) : CharOrder[i] = c

\* ORDER BY path: the BINARY collation compares the bytes.
RECURSIVE PathLess(_, _)
PathLess(p, q) ==
    IF q = <<>> THEN FALSE
    ELSE IF p = <<>> THEN TRUE
    ELSE IF Head(p) # Head(q) THEN CharRank(Head(p)) < CharRank(Head(q))
    ELSE PathLess(Tail(p), Tail(q))

\* LIKE compares ASCII letters without regard to case.
LikeFold(c) ==
    CASE c = "G" -> "g"
      [] c = "I" -> "i"
      [] c = "T" -> "t"
      [] OTHER -> c

\* path LIKE '.git/%'
LikeGit(path) ==
    /\ Len(path) >= 5
    /\ [i \in 1..5 |-> LikeFold(path[i])] = <<".", "g", "i", "t", "/">>

\* ... ORDER BY path, chunk_index: the rows of a set as a sequence.
RECURSIVE OrderByPathChunk(_)
OrderByPathChunk(rs) ==
    IF rs = {} THEN <<>>
    ELSE LET first == CHOOSE r \in rs :
                        \A q \in rs :
                          \/ PathLess(r.path, q.path)
                          \/ (r.path = q.path /\ r.chunk_index <= q.chunk_index)
         IN  <<first>> \o OrderByPathChunk(rs \ {first})

\* exported.push({path: currentPath, data: concatBuffers(currentChunks)}),
\* when there is a current path with chunks.
Flush(exported, currentPath, currentChunks) ==
    IF currentPath # <<>> /\ currentChunks # <<>>
    THEN Append(exported, [path |-> currentPath, data |-> concatBuffers(currentChunks)])
    ELSE exported

\* fs-adapter.ts exportGitObjects, lines 539-551: the loop over the rows.
RECURSIVE ExportLoop(_, _, _, _)
ExportLoop(rowSeq, currentPath, currentChunks, exported) ==
    IF rowSeq = <<>> THEN Flush(exported, currentPath, currentChunks)
    ELSE LET row == Head(rowSeq)
         IN  IF row.path # currentPath
             THEN ExportLoop(Tail(rowSeq), row.path, <<rowDataToBytes(row.data)>>,
                             Flush(exported, currentPath, currentChunks))
             ELSE ExportLoop(Tail(rowSeq), currentPath,
                             Append(currentChunks, rowDataToBytes(row.data)),
                             exported)

\* fs-adapter.ts exportGitObjects: the sequence of {path, data}.
exportGitObjects(rows) ==
    ExportLoop(OrderByPathChunk({r \in rows : LikeGit(r.path) /\ r.is_dir = 0}),
               <<>>, <<>>, <<>>)

(***************************************************************************)
(* The filesystem on a fresh store with a .git directory.                  *)
(***************************************************************************)
\* The paths of the calls: the .git directory, two paths below it, and a
\* path below a directory that differs from it in case only.
GitPaths == {<<".", "g", "i", "t">>,
             <<".", "g", "i", "t", "/", "a">>,
             <<".", "g", "i", "t", "/", "b">>,
             <<".", "G", "I", "T", "/", "a">>}

\* The byte sequences written: less than a chunk and several chunks.
GitDatas == {Content(1), Content(MaxLen)}

NextGit ==
    \/ InitCall
    \/ \E path \in GitPaths, bytes \in GitDatas : WriteFileCall(path, bytes)
    \/ \E path \in GitPaths : UnlinkCall(path)
    \/ \E oldPath \in GitPaths, newPath \in GitPaths : RenameCall(oldPath, newPath)

SpecGit == Init /\ [][NextGit]_vars

\* The file paths that begin with ".git/".
GitFilePaths(rows) ==
    {r.path : r \in {x \in rows : /\ x.chunk_index = 0
                                  /\ x.is_dir = 0
                                  /\ StartsWith(x.path, <<".", "g", "i", "t", "/">>)}}

(***************************************************************************)
(* C17.  In every reachable state exportGitObjects() returns exactly one   *)
(* entry for each file path that begins with ".git/", the entry's bytes    *)
(* are what readFile returns for that path, no entry is produced for a     *)
(* directory or for a path outside ".git/", and the entries are in         *)
(* ascending path order.                                                   *)
(***************************************************************************)
C17_ExportGitObjects ==
    Ready =>
      LET ex == exportGitObjects(db.objects)
      IN  /\ \A p \in GitFilePaths(db.objects) :
               /\ Cardinality({i \in 1..Len(ex) : ex[i].path = p}) = 1
               /\ \A i \in 1..Len(ex) :
                    ex[i].path = p =>
                      readFile(db.objects, p) = [err |-> "", bytes |-> ex[i].data]
          /\ \A i \in 1..Len(ex) : ex[i].path \in GitFilePaths(db.objects)
          /\ \A i \in 1..Len(ex), j \in 1..Len(ex) :
               i < j => PathLess(ex[i].path, ex[j].path)

(***************************************************************************)
(* The filesystem on a fresh store under a clock that moves forward.       *)
(***************************************************************************)
ClockPaths == {<<"a">>, <<"b">>}

ClockDatas == {Content(0), Content(1)}

\* Date.now() has advanced.
Tick ==
    /\ now < MaxClock
    /\ now' = now + 1
    /\ UNCHANGED <<db, pc, ran, seed, interrupted, probe, mem, calls, base>>

NextClock ==
    \/ InitCall
    \/ Tick
    \/ \E path \in ClockPaths, bytes \in ClockDatas : WriteFileCall(path, bytes)
    \/ \E oldPath \in ClockPaths, newPath \in ClockPaths : RenameCall(oldPath, newPath)

SpecClock == Init /\ [][NextClock]_vars

(***************************************************************************)
(* C19.  With a clock that never goes backwards, stat(p).mtimeMs does not  *)
(* decrease across successive writes to p: neither when writeFile writes   *)
(* p again nor when rename writes the rows of another path to p.           *)
(***************************************************************************)
C19_MtimeMonotonic ==
    Ready =>
      \A p \in ClockPaths :
        LET before == stat(db.objects, p)
        IN  before.err = "" =>
              /\ \A b \in ClockDatas :
                   LET r == writeFile(db.objects, p, b, now)
                   IN  r.err = "" => stat(r.rows, p).mtimeMs >= before.mtimeMs
              /\ \A q \in ClockPaths :
                   LET r == rename(db.objects, q, p)
                   IN  (q # p /\ r.err = "") =>
                         stat(r.rows, p).mtimeMs >= before.mtimeMs

(***************************************************************************)
(* A MemFS on its own: constructed empty, then written, linked, renamed    *)
(* and unlinked.                                                           *)
(***************************************************************************)
EphPaths == {<<"a">>, <<"b">>, <<"a", "/", "b">>}

MemWriteFileCall(path, bytes) ==
    /\ mem' = MemFS_writeFile(mem, path, bytes).mem
    /\ UNCHANGED <<db, now, pc, ran, seed, interrupted, probe, calls, base>>

MemSymlinkCall(target, path) ==
    /\ mem' = MemFS_symlink(mem, target, path).mem
    /\ UNCHANGED <<db, now, pc, ran, seed, interrupted, probe, calls, base>>

MemRenameCall(oldPath, newPath) ==
    /\ mem' = MemFS_rename(mem, oldPath, newPath).mem
    /\ UNCHANGED <<db, now, pc, ran, seed, interrupted, probe, calls, base>>

MemUnlinkCall(path) ==
    /\ mem' = MemFS_unlink(mem, path).mem
    /\ UNCHANGED <<db, now, pc, ran, seed, interrupted, probe, calls, base>>

NextEph ==
    \/ \E path \in EphPaths, bytes \in Datas : MemWriteFileCall(path, bytes)
    \/ \E target \in Targets, path \in EphPaths : MemSymlinkCall(target, path)
    \/ \E oldPath \in EphPaths, newPath \in EphPaths : MemRenameCall(oldPath, newPath)
    \/ \E path \in EphPaths : MemUnlinkCall(path)

SpecEph == Init /\ [][NextEph]_vars

\* The keys of both maps.
MemKeys == (DOMAIN mem.files) \cup (DOMAIN mem.symlinks)

(***************************************************************************)
(* C21.  In every state of a MemFS reachable by writeFile, symlink, rename *)
(* and unlink calls, the key sets of the files map and of the symlinks map *)
(* are disjoint.                                                           *)
(***************************************************************************)
C21_MapsDisjoint == (DOMAIN mem.files) \cap (DOMAIN mem.symlinks) = {}

(***************************************************************************)
(* C22.  In every reachable state of a MemFS, the freshly constructed      *)
(* empty one included, stat of the root returns a directory; and for a     *)
(* path p in neither map, stat(p) returns a directory iff some key of      *)
(* either map has p + "/" as a prefix, and raises ENOENT otherwise.        *)
(***************************************************************************)
C22_MemStat ==
    /\ MemFS_stat(mem, <<>>).err = ""
    /\ MemFS_stat(mem, <<>>).type = "dir"
    /\ \A p \in EphPaths \ MemKeys :
         IF \E k \in MemKeys : StartsWith(k, p \o <<"/">>)
         THEN MemFS_stat(mem, p).err = "" /\ MemFS_stat(mem, p).type = "dir"
         ELSE MemFS_stat(mem, p).err = "ENOENT"

(***************************************************************************)
(* C23.  MemFS rename(a, b), for all a and b: when a is in the files map,  *)
(* b maps to a's bytes afterwards and a is no longer a file (a itself,     *)
(* when b names the same path, holds the bytes); when a is not in the      *)
(* files map the call raises no error and leaves both maps unchanged.      *)
(***************************************************************************)
C23_MemRename ==
    \A a \in EphPaths, b \in EphPaths :
      LET r == MemFS_rename(mem, a, b)
      IN  IF a \in DOMAIN mem.files
          THEN /\ r.err = ""
               /\ b \in DOMAIN r.mem.files
               /\ r.mem.files[b] = mem.files[a]
               /\ a # b => a \notin DOMAIN r.mem.files
          ELSE r = MemOutcome(mem, "")

(***************************************************************************)
(* C26.  The root directory row (path = "", chunk_index = 0, is_dir = 1)   *)
(* that init() establishes is preserved by every sequence of writeFile,    *)
(* unlink, rmdir, mkdir and rename calls, rename with the root as source   *)
(* or as destination included: no call removes it or makes it a file.      *)
(***************************************************************************)
C26_RootPreserved ==
    Ready =>
      \E r \in db.objects : r.path = <<>> /\ r.chunk_index = 0 /\ r.is_dir = 1

(***************************************************************************)
(* C27.  rename(p, p) on an existing file p returns and leaves p in place  *)
(* with unchanged contents: on SqliteFS all chunk rows of p are still      *)
(* there, on MemFS p is still in the files map.                            *)
(***************************************************************************)
C27_RenameOntoItself ==
    /\ Ready =>
         \A p \in MemPaths :
           readFile(db.objects, p).err = "" =>
             LET r == rename(db.objects, p, p)
             IN  /\ r.err = ""
                 /\ SelectPath(r.rows, normalizePath(p))
                      = SelectPath(db.objects, normalizePath(p))
                 /\ readFile(r.rows, p) = readFile(db.objects, p)
    /\ \A p \in MemPaths :
         p \in DOMAIN mem.files =>
           LET m == MemFS_rename(mem, p, p)
           IN  /\ m.err = ""
               /\ MemFS_readFile(m.mem, p) = MemFS_readFile(mem, p)

(***************************************************************************)
(* C28.  In every state reachable from init() by any sequence of public    *)
(* operations, the parent_path of every non-root chunk-0 row names a path  *)
(* that has a chunk-0 row with is_dir = 1 (so that every stored file and   *)
(* directory is reached from the root by repeated readdir), also after a   *)
(* rename of a directory that has children and after a writeFile below a   *)
(* path that exists as a file.                                             *)
(***************************************************************************)
C28_ParentsAreDirs ==
    Ready =>
      \A r \in db.objects :
        (r.chunk_index = 0 /\ r.path # <<>>) => IsDirectory(db.objects, r.parent_path)

(***************************************************************************)
(* C29.  In every state reachable from init() by any sequence of public    *)
(* operations, for every path p that stat reports as a file, stat(p).size  *)
(* is the number of bytes readFile(p) returns.                             *)
(***************************************************************************)
C29_SizeMatchesRead ==
    Ready =>
      \A p \in InPaths :
        LET st == stat(db.objects, p)
            rd == readFile(db.objects, p)
        IN  (st.err = "" /\ st.type = "file")
              => (rd.err = "" /\ st.size = Len(rd.bytes))

(***************************************************************************)
(* The mutating calls on a few paths: the root, a directory or file, a     *)
(* path below it and a path beside it; an empty content and one of several *)
(* chunks.                                                                 *)
(***************************************************************************)
ErrPaths == {<<>>, <<"a">>, <<"b">>, <<"a", "/", "b">>}

ErrDatas == {Content(0), Content(MaxLen)}

NextErr ==
    \/ InitCall
    \/ \E p \in ErrPaths, b \in ErrDatas : WriteFileCall(p, b)
    \/ \E p \in ErrPaths : UnlinkCall(p)
    \/ \E p \in ErrPaths : MkdirCall(p)
    \/ \E p \in ErrPaths : RmdirCall(p)
    \/ \E p \in ErrPaths, q \in ErrPaths : RenameCall(p, q)

SpecErr == Init /\ [][NextErr]_vars

(***************************************************************************)
(* C25.  Every public operation that raises an error (ENOENT, EISDIR,      *)
(* ENOTDIR, EEXIST, EPERM, ENOTEMPTY, or the root errors of writeFile and  *)
(* rmdir that carry no code) leaves the table exactly as it was before the *)
(* call: all checks precede the first mutating statement.                  *)
(***************************************************************************)
C25_ErrorsChangeNothing ==
    Ready =>
      \A p \in ErrPaths :
        /\ \A b \in ErrDatas :
             LET r == writeFile(db.objects, p, b, now)
             IN  r.err # "" => r.rows = db.objects
        /\ LET r == unlink(db.objects, p) IN r.err # "" => r.rows = db.objects
        /\ LET r == mkdir(db.objects, p, now) IN r.err # "" => r.rows = db.objects
        /\ LET r == rmdir(db.objects, p) IN r.err # "" => r.rows = db.objects
        /\ \A q \in ErrPaths :
             LET r == rename(db.objects, p, q)
             IN  r.err # "" => r.rows = db.objects

\* Each operation has an error to raise in one state: writeFile on a
\* directory, unlink of a directory, mkdir of an existing file, rmdir of a
\* directory that is not empty and of a file, rmdir and writeFile of the
\* root, rename of an absent path.
C25_Witness ==
    /\ Ready
    /\ \E p \in ErrPaths : writeFile(db.objects, p, Content(MaxLen), now).err = "EISDIR"
    /\ \E p \in ErrPaths : writeFile(db.objects, p, Content(MaxLen), now).err = "Cannot write to root"
    /\ \E p \in ErrPaths : unlink(db.objects, p).err = "EPERM"
    /\ \E p \in ErrPaths : mkdir(db.objects, p, now).err = "EEXIST"
    /\ \E p \in ErrPaths : rmdir(db.objects, p).err = "ENOTEMPTY"
    /\ \E p \in ErrPaths : rmdir(db.objects, p).err = "ENOTDIR"
    /\ \E p \in ErrPaths, q \in ErrPaths : rename(db.objects, p, q).err = "ENOENT"

(***************************************************************************)
(* Several callers on one SqliteFS instance.  A call's body runs on the    *)
(* single JavaScript thread from its invocation to its first await; the    *)
(* executor is synchronous (SqlExecutor returns T[], not a promise), so    *)
(* the body is a sequence of statement groups with the awaits between      *)
(* them given by AwaitsIn.  The promise of a finished body is settled; the *)
(* caller observes it in a later microtask (Return).                       *)
(***************************************************************************)
\* The paths and contents of the concurrent calls: a file and a path below
\* it, an empty content and one of several chunks.
ConcPaths == {<<"a">>, <<"a", "/", "b">>}

ConcDatas == {Content(0), Content(MaxLen)}

\* The statement groups of a method's body.
\*   writeFile: 1 root check and SELECT is_dir, 2 the ancestor INSERTs,
\*              3 the DELETE, 4 the chunk INSERTs
\*   rename:    1 SELECT of the source rows, 2 the copying INSERTs, 3 the DELETE
\*   readFile:  1 SELECT is_dir of chunk 0, 2 SELECT data of all chunks
Statements(op) ==
    CASE op = "writeFile" -> 4
      [] op = "rename" -> 3
      [] op = "readFile" -> 2

\* An await after every statement group but the last.
AwaitsIn_betweenStatements(op) == 1..(Statements(op) - 1)

\* The statement groups of a body after which it awaits: none.  Every
\* this.sql`...` is a synchronous call whose value is used or voided at once.
AwaitsIn(op) == {}

\* The body has ended, by a return or a throw.
Settle(call, err, out) ==
    [call EXCEPT !.pos = @ + 1, !.err = err, !.out = out, !.state = "settled"]

Advance(call) == [call EXCEPT !.pos = @ + 1]

Effect(rows, call) == [rows |-> rows, call |-> call]

\* fs-adapter.ts writeFile, one statement group
writeFile_statement(rows, call, t) ==
    LET normalized == normalizePath(call.path)
        parts == Split(normalized)
    IN  CASE call.pos = 0 ->
               IF normalized = <<>>
               THEN Effect(rows, Settle(call, "Cannot write to root", <<>>))
               ELSE IF \E e \in SelectChunk0(rows, normalized) : e.is_dir = 1
               THEN Effect(rows, Settle(call, "EISDIR", <<>>))
               ELSE Effect(rows, Advance(call))
          [] call.pos = 1 ->
               Effect(EnsureParents(rows, parts, 0, t), Advance(call))
          [] call.pos = 2 ->
               Effect(DeleteWherePath(rows, normalized), Advance(call))
          [] call.pos = 3 ->
               LET r == WriteChunks(rows, normalized, ParentOf(parts), call.arg, 0, t)
               IN  Effect(r.rows, Settle(call, r.err, <<>>))

\* fs-adapter.ts rename, one statement group; the rows selected first are
\* the local `rows` that the copying loop iterates.
rename_statement(rows, call) ==
    LET oldNorm == normalizePath(call.path)
        newNorm == normalizePath(call.arg)
        newParent == ParentOf(Split(newNorm))
    IN  CASE call.pos = 0 ->
               LET source == OrderByChunkIndex(SelectPath(rows, oldNorm))
               IN  IF source = <<>>
                   THEN Effect(rows, Settle(call, "ENOENT", <<>>))
                   ELSE Effect(rows, [Advance(call) EXCEPT !.local = source])
          [] call.pos = 1 ->
               Effect(CopyRows(rows, call.local, newNorm, newParent), Advance(call))
          [] call.pos = 2 ->
               Effect(DeleteWherePath(rows, oldNorm), Settle(call, "", <<>>))

\* fs-adapter.ts readFile, one statement group
readFile_statement(rows, call) ==
    LET normalized == normalizePath(call.path)
        meta == SelectChunk0(rows, normalized)
    IN  CASE call.pos = 0 ->
               IF meta = {} THEN Effect(rows, Settle(call, "ENOENT", <<>>))
               ELSE IF \E m \in meta : m.is_dir # 0
               THEN Effect(rows, Settle(call, "EISDIR", <<>>))
               ELSE Effect(rows, Advance(call))
          [] call.pos = 1 ->
               LET ordered == OrderByChunkIndex(SelectPath(rows, normalized))
               IN  IF \E i \in 1..Len(ordered) : rowDataThrows(ordered[i].data)
                   THEN Effect(rows, Settle(call, "InvalidCharacterError", <<>>))
                   ELSE Effect(rows, Settle(call, "",
                            concatBuffers([i \in 1..Len(ordered) |->
                                             rowDataToBytes(ordered[i].data)])))

\* The caller's body is between two of its statements with no await there:
\* it holds the thread.
HoldsThread(c) ==
    /\ calls[c].state = "running"
    /\ calls[c].pos \notin AwaitsIn(calls[c].op)

\* Other code can run: no other caller's body holds the thread.
ThreadFreeFor(c) == \A d \in Callers \ {c} : ~HoldsThread(d)

\* The record of a call just invoked: its body is about to run its first
\* statement, and the calls that had returned by then are remembered.
Invoked(op, path, arg) ==
    [IdleCall EXCEPT !.op = op, !.path = path, !.arg = arg, !.state = "running",
                     !.seen = {d \in Callers : calls[d].state = "returned"}]

\* The first call of a round fixes the rows the round started from.
RoundBase == IF \A d \in Callers : calls[d].state = "idle" THEN db.objects ELSE base

\* A caller invokes a method without awaiting the calls of the others.
InvokeWriteFile(c, path, bytes) ==
    /\ Ready
    /\ calls[c].state = "idle"
    /\ ThreadFreeFor(c)
    /\ calls' = [calls EXCEPT ![c] = Invoked("writeFile", path, bytes)]
    /\ base' = RoundBase
    /\ UNCHANGED <<db, now, pc, ran, seed, interrupted, probe, mem>>

InvokeRename(c, oldPath, newPath) ==
    /\ Ready
    /\ calls[c].state = "idle"
    /\ ThreadFreeFor(c)
    /\ calls' = [calls EXCEPT ![c] = Invoked("rename", oldPath, newPath)]
    /\ base' = RoundBase
    /\ UNCHANGED <<db, now, pc, ran, seed, interrupted, probe, mem>>

InvokeReadFile(c, path) ==
    /\ Ready
    /\ calls[c].state = "idle"
    /\ ThreadFreeFor(c)
    /\ calls' = [calls EXCEPT ![c] = Invoked("readFile", path, <<>>)]
    /\ base' = RoundBase
    /\ UNCHANGED <<db, now, pc, ran, seed, interrupted, probe, mem>>

\* The body of a call executes its next statement group.
Statement(c) ==
    /\ calls[c].state = "running"
    /\ ThreadFreeFor(c)
    /\ LET r == CASE calls[c].op = "writeFile" ->
                       writeFile_statement(db.objects, calls[c], now)
                  [] calls[c].op = "rename" ->
                       rename_statement(db.objects, calls[c])
                  [] calls[c].op = "readFile" ->
                       readFile_statement(db.objects, calls[c])
       IN  /\ db' = [db EXCEPT !.objects = r.rows]
           /\ calls' = [calls EXCEPT ![c] = r.call]
    /\ UNCHANGED <<now, pc, ran, seed, interrupted, probe, mem, base>>

\* The caller observes the settled promise of its call.
Return(c) ==
    /\ calls[c].state = "settled"
    /\ ThreadFreeFor(c)
    /\ calls' = [calls EXCEPT ![c].state = "returned"]
    /\ UNCHANGED <<db, now, pc, ran, seed, interrupted, probe, mem, base>>

\* Every caller has its result; the callers go on to their next calls.
NextRound ==
    /\ \A c \in Callers : calls[c].state = "returned"
    /\ calls' = NoCalls
    /\ UNCHANGED <<db, now, pc, ran, seed, interrupted, probe, mem, base>>

NextConc ==
    \/ InitCall
    \/ \E c \in Callers, p \in ConcPaths, b \in ConcDatas : InvokeWriteFile(c, p, b)
    \/ \E c \in Callers, p \in ConcPaths, q \in ConcPaths : InvokeRename(c, p, q)
    \/ \E c \in Callers, p \in ConcPaths : InvokeReadFile(c, p)
    \/ \E c \in Callers : Statement(c)
    \/ \E c \in Callers : Return(c)
    \/ NextRound

SpecConc == Init /\ [][NextConc]_vars

\* A whole call run alone on the rows: its rows, error and value.
RunAlone(rows, call) ==
    CASE call.op = "writeFile" ->
           LET r == writeFile(rows, call.path, call.arg, now)
           IN  [rows |-> r.rows, err |-> r.err, out |-> <<>>]
      [] call.op = "rename" ->
           LET r == rename(rows, call.path, call.arg)
           IN  [rows |-> r.rows, err |-> r.err, out |-> <<>>]
      [] call.op = "readFile" ->
           LET r == readFile(rows, call.path)
           IN  [rows |-> rows, err |-> r.err, out |-> r.bytes]

\* The rows after the calls of the callers in `order` ran one after another.
RECURSIVE SerialRows(_, _)
SerialRows(rows, order) ==
    IF order = <<>> THEN rows
    ELSE SerialRows(RunAlone(rows, calls[Head(order)]).rows, Tail(order))

\* The orders of all callers.
Orders ==
    {o \in [1..Cardinality(Callers) -> Callers] :
       \A i, j \in 1..Cardinality(Callers) : o[i] = o[j] => i = j}

\* The bodies of all callers' calls have ended.
AllSettled == \A c \in Callers : calls[c].state \in {"settled", "returned"}

\* The table and every call's error and value are those of the calls run
\* alone one after another in `order`, and a call made after another had
\* returned comes after it.
SerialOrder(order) ==
    /\ SerialRows(base, order) = db.objects
    /\ \A i \in 1..Len(order) :
         LET r == RunAlone(SerialRows(base, SubSeq(order, 1, i - 1)), calls[order[i]])
         IN  /\ r.err = calls[order[i]].err
             /\ r.out = calls[order[i]].out
    /\ \A i, j \in 1..Len(order) :
         order[i] \in calls[order[j]].seen => i < j

(***************************************************************************)
(* C24.  No public operation yields control between its first and last     *)
(* storage statement; so when several callers invoke operations on one     *)
(* instance without awaiting each other, the resulting table and every     *)
(* returned value equal those of some serial execution of the same         *)
(* operations, and a read issued after a write has returned observes that  *)
(* write.                                                                  *)
(***************************************************************************)
C24_Serializable ==
    /\ \A c \in Callers :
         calls[c].state = "running" /\ calls[c].pos \in 1..(Statements(calls[c].op) - 1)
           => HoldsThread(c)
    /\ AllSettled => \E order \in Orders : SerialOrder(order)
    /\ \A c \in Callers, d \in Callers :
         /\ calls[c].op = "readFile"
         /\ calls[c].state \in {"settled", "returned"}
         /\ d \in calls[c].seen
         /\ calls[d].op = "writeFile"
         /\ calls[d].err = ""
         /\ normalizePath(calls[d].path) = normalizePath(calls[c].path)
         => calls[c].err = "" /\ calls[c].out = calls[d].arg

\* Two callers invoked a multi-chunk writeFile and a rename of the same path
\* without awaiting each other (neither call was made after the other had
\* returned), and both calls succeeded and returned.
C24_Witness ==
    \E c \in Callers, d \in Callers :
      /\ calls[c].op = "writeFile" /\ calls[c].arg = Content(MaxLen)
      /\ calls[d].op = "rename"
      /\ normalizePath(calls[d].path) = normalizePath(calls[c].path)
      /\ calls[c].state = "returned" /\ calls[d].state = "returned"
      /\ calls[c].err = "" /\ calls[d].err = ""
      /\ calls[c].seen = {} /\ calls[d].seen = {}

=============================================================================
